---- MODULE Spec2Model ----
(***************************************************************************)
(* Playback state machine of plomdawg/discord-bots: one guild's            *)
(* AudioPlayer / MusicPlayer (cogs/audio/types.py, cogs/music/music.py),   *)
(* the guild's voice client, the alone timer of the Audio cog              *)
(* (cogs/audio/audio.py) and the Shopkeeper quiz registry                  *)
(* (cogs/dota/quiz.py).                                                    *)
(*                                                                         *)
(* Coroutines run on one event loop: a coroutine is atomic between two     *)
(* awaits that really suspend.  The after-callback of a playback runs on   *)
(* the voice client's player thread, at a time of its own.                 *)
(***************************************************************************)
EXTENDS Integers, Sequences, FiniteSets, TLC

\* ---------------------------------------------------------------- bounds
MaxAdds == 3          \* tracks ever added to the queue (track k = k-th add)
MaxCalls == 2         \* play() calls in flight (scheduled or inside connect)
MaxAfter == 1         \* interrupted playbacks whose after-callback is pending
MaxQuizzes == 3       \* Quiz objects ever created
MaxQuizReqs == 2      \* shopkeeper_quiz() calls waiting at once
MaxGuildAdds == 3     \* tracks ever added over all guilds' players

\* ------------------------------------------------------ program constants
timeout == 60         \* seconds before disconnecting
step == 10            \* seconds between checks
NoTrack == 0          \* None as a track

Modes == {"OFF", "ALL", "ONE"}                               \* RepeatMode
Statuses == {"PLAYING", "PAUSED", "STOPPED", "CONTINUING"}   \* AudioPlayerStatus
Outcomes == {"ok", "source_error", "play_error"}

VARIABLES
    kind,          \* "audio": the Audio cog's player; "music": the Music cog's MusicPlayer
    tracks,        \* queue.tracks
    position,      \* queue.position
    repeat_mode,   \* queue.repeat_mode
    status,        \* player.status
    vcRef,         \* player.voice_client is not None
    connected,     \* the guild's voice client exists and is_connected()
    streaming,     \* track of the playback running on the voice client, or NoTrack
    afterPending,  \* playbacks stopped by a disconnect, after-callback not yet run
    humansHere,    \* some non-bot member is in the bot's channel
    playQ,         \* play() calls created and not yet begun
    moving,        \* play() calls suspended in connect() at move_to
    dialing,       \* play() calls suspended in connect() at voice_channel.connect()
    stopState,     \* stop(): "none", "clearing"/"dirty" (awaiting disconnect), "done"
    timerPc,       \* alone timer: "idle", "sleeping", "aborted", "disconnected"
    timerI,        \* checks the running timer has passed
    moved,         \* voice_client.channel != bot_channel, for the channel the running timer saved
    timerClient,   \* the voice client the timer captured is still connected
    disturbed,     \* since the timer started: someone joined, or the bot moved or was disconnected
    nAdded,        \* tracks added so far
    started,       \* tracks whose playback voice_client.play began, in order, while clean
                   \* (the first MaxAdds + 1 of them)
    clean,         \* so far no stop, no clear, no /repeat and no disconnect of the bot
    overlap,       \* voice_client.play was invoked before an earlier after-callback ran
    expectNext,    \* track due next after a finish under repeat ONE / ALL, or NoTrack
    reply,         \* how the last /pause, /resume or /skip ended
    quizzes,       \* ShopkeeperQuiz.quizzes[guild]: id of the registered Quiz, 0 if none
    quizState,     \* per Quiz object: "none","created","running","ending","ended"
    quizReqs,      \* shopkeeper_quiz() calls waiting to run
    quizReply,     \* answer to the last shopkeeper_quiz() call
    players,       \* the cog's dict of players: key -> player object, 0 if absent
    heap,          \* player objects: queue.tracks, queue.position, queue.repeat_mode,
                   \* volume (in percent) and status of each
    got,           \* per guild: the object its last get_player call returned, 0 if none
    gAdded,        \* tracks added so far over all guilds
    actor,         \* guild of the player the last operation was on, "" before the first
    shuffled,      \* the last operation: "no" shuffle, or a shuffle that left the tracks
                   \* in the "same" or in a "new" order
    cut,           \* stop() or the timer's clear + disconnect interrupted a playing track
                   \* and no track was added since
    given,         \* first track added after such an interruption and its after-callback,
                   \* while no playback has begun since; else NoTrack
    autoOff        \* the alone timer has disconnected the bot while no play() call was
                   \* outstanding, and no play request was made since

playerVars == <<tracks, position, repeat_mode, status, vcRef>>
voiceVars == <<connected, streaming, afterPending, humansHere>>
taskVars == <<playQ, moving, dialing, stopState>>
timerVars == <<timerPc, timerI, moved, timerClient, disturbed>>
histVars == <<nAdded, started, clean, overlap, expectNext, reply>>
quizVars == <<quizzes, quizState, quizReqs, quizReply>>
resumeVars == <<cut, given, autoOff>>
guildVars == <<players, heap, got, gAdded, actor, shuffled>>
vars == <<kind, playerVars, voiceVars, taskVars, timerVars, histVars, quizVars, guildVars,
          resumeVars>>

InFlight == playQ + moving + dialing
\* Two guilds of the bot: isolation is a matter of the guild operated on and one
\* other guild; no operation reads the players of two guilds.
Guilds == {"a", "b"}
Objects == 1..Cardinality(Guilds)              \* player objects that may be created

\* AudioPlayer.__init__ / AudioQueue.__init__: a new player object.
FreshPlayer ==
    [tracks |-> <<>>, position |-> 0, repeat_mode |-> "OFF", volume |-> 30,
     status |-> "STOPPED"]
NumChecks == timeout \div step                          \* range(0, int(timeout / step))

\* ------------------------------------------------------------ AudioQueue
\* queue.current_track: tracks[position], None on IndexError.
current_track(trk, pos) ==
    IF pos < Len(trk) THEN trk[pos + 1] ELSE NoTrack

\* queue.add(track)
add(trk, t) == Append(trk, t)

\* increment_position that never moves the pointer.
increment_position_stuck(mode, trk, pos) == pos

\* increment_position without the repeat-one check.
increment_position_ignores_one(mode, trk, pos) ==
    IF Len(trk) <= pos + 1 /\ mode = "ALL" THEN 0 ELSE pos + 1

\* increment_position that wraps in every mode but repeat one.
increment_position_always_wraps(mode, trk, pos) ==
    IF mode = "ONE" THEN pos
    ELSE IF Len(trk) <= pos + 1 THEN 0
    ELSE pos + 1

\* increment_position that does not wrap under repeat all.
increment_position_no_wrap(mode, trk, pos) ==
    IF mode = "ONE" THEN pos ELSE pos + 1

\* queue.increment_position(): the new position.
increment_position(mode, trk, pos) ==
    IF mode = "ONE" THEN pos
    ELSE IF Len(trk) <= pos + 1 /\ mode = "ALL" THEN 0
    ELSE pos + 1

\* clear that resets the pointer and keeps the tracks.
clear_keeps_tracks ==
    /\ tracks' = tracks
    /\ position' = 0

\* queue.clear(): tracks = [], position = 0.
clear ==
    /\ tracks' = <<>>
    /\ position' = 0

\* A request that adds after stop()'s clear is the "later request" of stop().
AfterAdd(st) ==
    CASE st = "clearing" -> "dirty"
      [] st = "done" -> "none"
      [] OTHER -> st

Init ==
    /\ kind \in {"audio", "music"}
    /\ tracks = <<>>
    /\ position = 0
    /\ repeat_mode = "OFF"
    /\ status = "STOPPED"
    /\ vcRef = FALSE
    /\ connected = FALSE
    /\ streaming = NoTrack
    /\ afterPending = 0
    /\ humansHere = TRUE
    /\ playQ = 0
    /\ moving = 0
    /\ dialing = 0
    /\ stopState = "none"
    /\ timerPc = "idle"
    /\ timerI = 0
    /\ moved = FALSE
    /\ timerClient = FALSE
    /\ disturbed = FALSE
    /\ nAdded = 0
    /\ started = <<>>
    /\ clean = TRUE
    /\ overlap = FALSE
    /\ expectNext = NoTrack
    /\ reply = "none"
    /\ quizzes = 0
    /\ quizState = [q \in 1..MaxQuizzes |-> "none"]
    /\ quizReqs = 0
    /\ quizReply = "none"
    /\ players = [k \in Guilds |-> 0]
    /\ heap = [o \in Objects |-> FreshPlayer]
    /\ got = [g \in Guilds |-> 0]
    /\ gAdded = 0
    /\ actor = ""
    /\ shuffled = "no"
    /\ cut = FALSE
    /\ given = NoTrack
    /\ autoOff = FALSE

\* ----------------------------------------------------------- voice client
\* A playback is still running: streaming, or stopped with its after-callback pending.
Busy == streaming # NoTrack \/ afterPending > 0

\* voice_client.disconnect(): the running playback is stopped, its after-callback
\* will run on the player thread.
VoiceDisconnect ==
    /\ streaming # NoTrack => afterPending < MaxAfter
    /\ connected' = FALSE
    /\ streaming' = NoTrack
    /\ afterPending' = IF streaming # NoTrack THEN afterPending + 1 ELSE afterPending
    /\ timerClient' = FALSE

\* ------------------------------------------------------------ AudioPlayer
\* The history of a run that left the scope of the FIFO contract is dropped.
Dirty ==
    /\ clean' = FALSE
    /\ started' = <<>>

\* play() from "self.voice_client = voice_client" on: connect() returned a
\* connected client.  o is the outcome of audio_source() and voice_client.play().
PlayBody(trk, o) ==
    /\ vcRef' = TRUE
    /\ IF status = "PLAYING"
       THEN UNCHANGED <<status, streaming, started, clean, overlap, expectNext>>
       ELSE IF status = "PAUSED"
       THEN /\ status' = "PLAYING"
            /\ UNCHANGED <<streaming, started, clean, overlap, expectNext>>
       ELSE IF current_track(trk, position) = NoTrack
       THEN /\ status' = "STOPPED"
            /\ UNCHANGED <<streaming, started, clean, overlap, expectNext>>
       ELSE IF o = "source_error"
       THEN \* audio_source() raises out of play(): the status stays PLAYING
            /\ status' = "PLAYING"
            /\ UNCHANGED <<streaming, started, clean, overlap, expectNext>>
       ELSE IF streaming # NoTrack
       THEN \* voice_client.play raises ClientException("Already playing audio.")
            /\ status' = "STOPPED"
            /\ overlap' = TRUE
            /\ UNCHANGED <<streaming, started, clean, expectNext>>
       ELSE IF o = "play_error"
       THEN /\ status' = "STOPPED"
            /\ overlap' = (overlap \/ Busy)
            /\ UNCHANGED <<streaming, started, clean, expectNext>>
       ELSE /\ status' = "PLAYING"
            /\ streaming' = current_track(trk, position)
            /\ overlap' = (overlap \/ Busy)
            /\ started' = IF clean /\ Len(started) <= MaxAdds
                          THEN Append(started, current_track(trk, position))
                          ELSE started
            /\ expectNext' = NoTrack
            /\ UNCHANGED clean

\* A playback begins in this step.
Begins == streaming = NoTrack /\ streaming' # NoTrack

\* play(channel) up to the first await that suspends, with trk the queue's tracks.
\* connect(): a connected client and company in the channel: no await suspends;
\* alone in the channel: await move_to; not connected: await voice_channel.connect().
EnterPlay(trk, O) ==
    IF connected /\ humansHere
    THEN /\ \E o \in O : PlayBody(trk, o)
         /\ UNCHANGED <<moving, dialing>>
    ELSE IF connected
    THEN /\ moving' = moving + 1
         /\ vcRef' = TRUE
         /\ UNCHANGED <<dialing, status, streaming, started, clean, overlap, expectNext>>
    ELSE /\ dialing' = dialing + 1
         /\ vcRef' = FALSE
         /\ UNCHANGED <<moving, status, streaming, started, clean, overlap, expectNext>>

\* Audio.play(voice_channel, track): queue.add(track); await player.play(voice_channel)
\* O: the outcomes audio_source() and voice_client.play() may have.
AudioPlayWith(O) ==
    /\ kind = "audio"
    /\ nAdded < MaxAdds
    /\ InFlight < MaxCalls
    /\ nAdded' = nAdded + 1
    /\ tracks' = add(tracks, nAdded + 1)
    /\ stopState' = AfterAdd(stopState)
    /\ EnterPlay(tracks', O)
    /\ cut' = FALSE
    /\ autoOff' = FALSE
    /\ given' = IF Begins THEN NoTrack
                ELSE IF cut /\ afterPending = 0 THEN nAdded + 1
                ELSE given
    /\ UNCHANGED <<kind, position, repeat_mode, connected, afterPending, humansHere,
                   playQ, timerVars, reply, quizVars, guildVars>>

\* Music.play: queue.add(track); await _update_queued_message(); then player.play()
MusicPlayAdd ==
    /\ kind = "music"
    /\ nAdded < MaxAdds
    /\ InFlight < MaxCalls
    /\ nAdded' = nAdded + 1
    /\ tracks' = add(tracks, nAdded + 1)
    /\ stopState' = AfterAdd(stopState)
    /\ playQ' = playQ + 1
    /\ cut' = FALSE
    /\ autoOff' = FALSE
    /\ given' = IF cut /\ afterPending = 0 THEN nAdded + 1 ELSE given
    /\ UNCHANGED <<kind, position, repeat_mode, status, vcRef, voiceVars, moving, dialing,
                   timerVars, started, clean, overlap, expectNext, reply, quizVars, guildVars>>

\* A created play() call begins to run (Music.play after its await, or the task
\* of next_track).
PlayBeginWith(O) ==
    /\ playQ > 0
    /\ playQ' = playQ - 1
    /\ EnterPlay(tracks, O)
    /\ given' = IF Begins THEN NoTrack ELSE given
    /\ UNCHANGED <<kind, tracks, position, repeat_mode, connected, afterPending,
                   humansHere, stopState, timerVars, nAdded, reply, quizVars, guildVars, cut,
                   autoOff>>

\* The bot goes to the other channel (there are two): h tells whether a non-bot
\* member is there.
ChangeChannel(h) ==
    /\ humansHere' = h
    /\ moved' = IF timerPc = "sleeping" THEN ~moved ELSE moved
    /\ disturbed' = (disturbed \/ timerPc = "sleeping")

\* connect(): move_to(voice_channel) returns; then play() goes on.
MoveDoneWith(O) ==
    /\ moving > 0
    /\ moving' = moving - 1
    /\ IF connected
       THEN /\ \E other \in BOOLEAN, h \in BOOLEAN :
                IF other THEN ChangeChannel(h)
                ELSE UNCHANGED <<humansHere, moved, disturbed>>
            /\ \E o \in O : PlayBody(tracks, o)
       ELSE \* "Failed to connect to voice channel"
            /\ status' = "STOPPED"
            /\ UNCHANGED <<vcRef, humansHere, moved, disturbed, streaming, started,
                           clean, overlap, expectNext>>
    /\ given' = IF Begins THEN NoTrack ELSE given
    /\ UNCHANGED <<kind, tracks, position, repeat_mode, connected, afterPending, playQ,
                   dialing, stopState, timerPc, timerI, timerClient, nAdded, reply,
                   quizVars, guildVars, cut,
                   autoOff>>

\* connect(): voice_channel.connect() returns a connected client (ok) or raises.
\* OK: the results the connection attempt may have.
DialDoneWith(OK, O) ==
    /\ dialing > 0
    /\ dialing' = dialing - 1
    /\ \E ok \in OK :
         IF ok
         THEN /\ connected' = TRUE
              /\ \E h \in BOOLEAN :
                   humansHere' = IF connected THEN humansHere ELSE h
              /\ \E o \in O : PlayBody(tracks, o)
         ELSE \* connect() returns None: "Failed to connect to voice channel"
              /\ status' = "STOPPED"
              /\ UNCHANGED <<vcRef, connected, humansHere, streaming, started, clean,
                             overlap, expectNext>>
    /\ given' = IF Begins THEN NoTrack ELSE given
    /\ UNCHANGED <<kind, tracks, position, repeat_mode, afterPending, playQ, moving,
                   stopState, timerVars, nAdded, reply, quizVars, guildVars, cut,
                   autoOff>>

AudioPlay == AudioPlayWith(Outcomes)
PlayBegin == PlayBeginWith(Outcomes)
MoveDone == MoveDoneWith(Outcomes)
DialDone == DialDoneWith(BOOLEAN, Outcomes)

\* The same steps where nothing fails: connect() connects, the audio source is
\* created and voice_client.play accepts it.
QuietAudioPlay == AudioPlayWith({"ok"})
QuietPlayBegin == PlayBeginWith({"ok"})
QuietMoveDone == MoveDoneWith({"ok"})
QuietDialDone == DialDoneWith({TRUE}, {"ok"})

\* next_track(err): the after-callback of a playback.
next_track ==
    /\ status' = "STOPPED"
    /\ position' = increment_position(repeat_mode, tracks, position)
    /\ IF current_track(tracks, position') # NoTrack
       THEN /\ InFlight < MaxCalls
            /\ playQ' = playQ + 1          \* bot.loop.create_task(self.play(channel))
       ELSE UNCHANGED playQ

\* The playback reaches the end of its source: the player thread calls after.
TrackEnd ==
    /\ streaming # NoTrack
    /\ streaming' = NoTrack
    /\ next_track
    /\ expectNext' = IF streaming = current_track(tracks, position)
                     THEN current_track(tracks, position')
                     ELSE NoTrack
    /\ UNCHANGED <<kind, tracks, repeat_mode, vcRef, connected, afterPending, humansHere,
                   moving, dialing, stopState, timerVars, nAdded, started, clean, overlap,
                   reply, quizVars, guildVars, resumeVars>>

\* The after-callback of a playback that a disconnect stopped.
AfterCallback ==
    /\ afterPending > 0
    /\ afterPending' = afterPending - 1
    /\ next_track
    /\ expectNext' = NoTrack
    /\ UNCHANGED <<kind, tracks, repeat_mode, vcRef, connected, streaming, humansHere,
                   moving, dialing, stopState, timerVars, nAdded, started, clean, overlap,
                   reply, quizVars, guildVars, resumeVars>>

\* /stop -> MusicPlayer.stop() -> AudioPlayer.stop(), up to "await disconnect".
StopBegin ==
    /\ kind = "music"
    /\ stopState \in {"none", "done"}
    /\ clear
    /\ Dirty
    /\ expectNext' = NoTrack
    /\ cut' = (vcRef /\ streaming # NoTrack)
    /\ given' = NoTrack
    /\ UNCHANGED autoOff
    /\ IF vcRef
       THEN /\ VoiceDisconnect
            /\ disturbed' = (disturbed \/ timerPc = "sleeping")
            /\ stopState' = "clearing"
            /\ UNCHANGED status
       ELSE /\ status' = "STOPPED"
            /\ stopState' = "done"
            /\ UNCHANGED <<connected, streaming, afterPending, timerClient, disturbed>>
    /\ UNCHANGED <<kind, repeat_mode, vcRef, humansHere, playQ, moving, dialing, timerPc,
                   timerI, moved, nAdded, overlap, reply, quizVars, guildVars>>

\* AudioPlayer.stop() after the disconnect: self.status = STOPPED.
StopFinish ==
    /\ stopState \in {"clearing", "dirty"}
    /\ status' = "STOPPED"
    /\ stopState' = IF stopState = "clearing" THEN "done" ELSE "none"
    /\ UNCHANGED <<kind, tracks, position, repeat_mode, vcRef, voiceVars, playQ, moving,
                   dialing, timerVars, nAdded, started, clean, overlap, expectNext,
                   reply, quizVars, guildVars, resumeVars>>

\* /repeat mode
SetRepeat ==
    /\ kind = "music"
    /\ \E m \in Modes : repeat_mode' = m
    /\ Dirty
    /\ expectNext' = NoTrack
    /\ UNCHANGED <<kind, tracks, position, status, vcRef, voiceVars, taskVars, timerVars,
                   nAdded, overlap, reply, quizVars, guildVars, resumeVars>>

\* /pause -> MusicPlayer.pause() -> super().pause(): AudioPlayer defines no pause,
\* the call raises AttributeError before anything is changed.
Pause ==
    /\ kind = "music"
    /\ reply' = "pause: AttributeError"
    /\ UNCHANGED <<kind, playerVars, voiceVars, taskVars, timerVars, nAdded, started,
                   clean, overlap, expectNext, quizVars, guildVars, resumeVars>>

\* /resume -> MusicPlayer.resume() -> super().resume(): AttributeError.
Resume ==
    /\ kind = "music"
    /\ reply' = "resume: AttributeError"
    /\ UNCHANGED <<kind, playerVars, voiceVars, taskVars, timerVars, nAdded, started,
                   clean, overlap, expectNext, quizVars, guildVars, resumeVars>>

\* /skip count -> player.skip(count): neither MusicPlayer nor AudioPlayer defines
\* skip, the call raises AttributeError.
Skip ==
    /\ kind = "music"
    /\ reply' = "skip: AttributeError"
    /\ UNCHANGED <<kind, playerVars, voiceVars, taskVars, timerVars, nAdded, started,
                   clean, overlap, expectNext, quizVars, guildVars, resumeVars>>

\* ------------------------------------------------------------ alone timer
\* disconnect_if_alone up to the first sleep: the bot has a voice client and no
\* non-bot member is in its channel.  The model follows one timer at a time, the
\* first one started while none is followed; an event that arrives while it
\* sleeps only counts as a disturbance when it brings a member in.  A timer is
\* followed only while fewer than MaxAfter after-callbacks are outstanding, so
\* that its final disconnect can add one.
StartTimer ==
    IF connected /\ ~humansHere' /\ timerPc # "sleeping"
    THEN /\ afterPending < MaxAfter
         /\ timerPc' = "sleeping"
         /\ timerI' = 0
         /\ moved' = FALSE                    \* bot_channel = voice_client.channel
         /\ timerClient' = TRUE
         /\ disturbed' = FALSE
    ELSE /\ disturbed' = (disturbed \/ (timerPc = "sleeping" /\ humansHere'))
         /\ UNCHANGED <<timerPc, timerI, moved, timerClient>>

\* on_voice_state_update of a member that is not the bot: the member joins or
\* leaves the bot's channel, or changes state elsewhere.
MemberVoiceUpdate ==
    /\ \E ev \in {"join", "leave", "other"} :
         CASE ev = "join" -> ~humansHere /\ humansHere' = TRUE
           [] ev = "leave" -> humansHere /\ humansHere' = FALSE
           [] OTHER -> UNCHANGED humansHere
    /\ StartTimer
    /\ UNCHANGED <<kind, playerVars, connected, streaming, afterPending, taskVars,
                   histVars, quizVars, guildVars, resumeVars>>

\* Checks that look at the channel but not at who is in it.
still_alone_ignores_members == timerClient /\ ~moved

\* The checks after a sleep: the voice client is still connected, still in the
\* channel the timer started in, and no non-bot member is in that channel.
still_alone == timerClient /\ ~moved /\ ~humansHere

\* One turn of the timer loop: the sleep returns and the checks run; after the
\* last turn the queue of the Audio cog's player is cleared and the bot leaves.
TimerCheck ==
    /\ timerPc = "sleeping"
    /\ IF ~still_alone
       THEN /\ timerPc' = "aborted"
            /\ UNCHANGED <<tracks, position, connected, streaming, afterPending, timerI,
                           timerClient, started, clean, expectNext, resumeVars>>
       ELSE IF timerI + 1 < NumChecks
       THEN /\ timerI' = timerI + 1
            /\ UNCHANGED <<tracks, position, connected, streaming, afterPending, timerPc,
                           timerClient, started, clean, expectNext, resumeVars>>
       ELSE /\ timerPc' = "disconnected"
            /\ IF kind = "audio"
               THEN /\ clear /\ expectNext' = NoTrack
                    /\ cut' = (streaming # NoTrack)
                    /\ given' = NoTrack
               ELSE UNCHANGED <<tracks, position, expectNext, cut, given>>
            /\ autoOff' = (InFlight = 0)
            /\ Dirty
            /\ VoiceDisconnect
            /\ UNCHANGED timerI
    /\ UNCHANGED <<kind, repeat_mode, status, vcRef, humansHere, taskVars, moved,
                   disturbed, nAdded, overlap, reply, quizVars, guildVars>>

\* The bot is disconnected from voice from outside (kicked, connection lost).
EnvDisconnect ==
    /\ connected
    /\ VoiceDisconnect
    /\ Dirty
    /\ disturbed' = (disturbed \/ timerPc = "sleeping")
    /\ UNCHANGED <<kind, playerVars, humansHere, taskVars, timerPc, timerI, moved,
                   nAdded, overlap, expectNext, reply, quizVars, guildVars, resumeVars>>

\* The bot is moved to another channel from outside.
EnvMove ==
    /\ connected
    /\ \E h \in BOOLEAN : ChangeChannel(h)
    /\ UNCHANGED <<kind, playerVars, connected, streaming, afterPending, taskVars,
                   timerPc, timerI, timerClient, histVars, quizVars, guildVars, resumeVars>>

\* --------------------------------------------------------- Shopkeeper quiz
in_progress(q) == quizState[q] = "running"

\* /quiz (after its first reply) or a NEW reaction (after reaction.remove):
\* a call of shopkeeper_quiz is due.
QuizRequest ==
    /\ quizReqs < MaxQuizReqs
    /\ quizReqs' = quizReqs + 1
    /\ UNCHANGED <<kind, playerVars, voiceVars, taskVars, timerVars, histVars, guildVars, resumeVars, quizzes,
                   quizState, quizReply>>

\* shopkeeper_quiz(bot, channel)
shopkeeper_quiz ==
    /\ quizReqs > 0
    /\ quizReqs' = quizReqs - 1
    /\ IF quizzes # 0 /\ in_progress(quizzes)
       THEN /\ quizReply' = "A quiz is in progress!"
            /\ UNCHANGED <<quizzes, quizState>>
       ELSE \E q \in 1..MaxQuizzes :
            /\ quizState[q] = "none"
            /\ \A r \in 1..(q - 1) : quizState[r] # "none"
            /\ quizzes' = q                                   \* Quiz(...): in_progress = False
            /\ quizState' = [quizState EXCEPT ![q] = "created"]   \* ensure_future(start())
            /\ quizReply' = "started"
    /\ UNCHANGED <<kind, playerVars, voiceVars, taskVars, timerVars, histVars, guildVars, resumeVars>>

\* Quiz.start() begins to run: in_progress = True.
QuizStart ==
    /\ \E q \in 1..MaxQuizzes :
         /\ quizState[q] = "created"
         /\ quizState' = [quizState EXCEPT ![q] = "running"]
    /\ UNCHANGED <<kind, playerVars, voiceVars, taskVars, timerVars, histVars, guildVars, resumeVars, quizzes,
                   quizReqs, quizReply>>

\* start_round(): nobody answered in time, in_progress = False.
QuizGameOver ==
    /\ \E q \in 1..MaxQuizzes :
         /\ quizState[q] = "running"
         /\ quizState' = [quizState EXCEPT ![q] = "ending"]
    /\ UNCHANGED <<kind, playerVars, voiceVars, taskVars, timerVars, histVars, guildVars, resumeVars, quizzes,
                   quizReqs, quizReply>>

\* Quiz.end() has sent the results.
QuizEnd ==
    /\ \E q \in 1..MaxQuizzes :
         /\ quizState[q] = "ending"
         /\ quizState' = [quizState EXCEPT ![q] = "ended"]
    /\ UNCHANGED <<kind, playerVars, voiceVars, taskVars, timerVars, histVars, guildVars, resumeVars, quizzes,
                   quizReqs, quizReply>>

\* ------------------------------------------------- players of several guilds
\* The players of the cog of `kind` (Audio.players or Music.music_players) in
\* the guilds.  What a player does with its voice client is followed for
\* one guild above; here play() finds a connected client at once, and every
\* playback it starts is accepted.

\* A dict that keeps one player for all guilds.
player_key_shared(g) == "a"

\* self.players[guild] / self.music_players[guild]: the dict is keyed by the guild.
player_key(g) == g

\* get_player(guild) / get_music_player(guild): the object returned, created if
\* the guild is not in the dict.
get_player(g) ==
    IF players[player_key(g)] # 0
    THEN players[player_key(g)]
    ELSE Cardinality({k \in Guilds : players[k] # 0}) + 1

\* The player of guild g after get_player(g) becomes p.
WithPlayer(g, p) ==
    /\ players' = [players EXCEPT ![player_key(g)] = get_player(g)]
    /\ heap' = [heap EXCEPT ![get_player(g)] = p]
    /\ got' = [got EXCEPT ![g] = get_player(g)]

\* Permutations of the sequence s.
RECURSIVE Perms(_)
Perms(s) ==
    IF s = <<>> THEN {<<>>}
    ELSE UNION {{<<s[i]>> \o t :
                   t \in Perms([j \in 1..(Len(s) - 1) |-> IF j < i THEN s[j] ELSE s[j + 1]])} :
                i \in 1..Len(s)}

\* A shuffle that shuffles the whole queue.
shuffle_all(trk, pos) == Perms(trk)

\* queue.shuffle(): the orders random.shuffle may leave in tracks.
shuffle(trk, pos) ==
    IF Len(trk) > pos + 1
    THEN {SubSeq(trk, 1, pos + 1) \o t : t \in Perms(SubSeq(trk, pos + 2, Len(trk)))}
    ELSE {trk}

\* set_volume(volume): max(0.0, min(1.0, volume)), in percent.
set_volume(v) == IF v < 0 THEN 0 ELSE IF v > 100 THEN 100 ELSE v

\* play() of a player whose connect() returns a connected client.
played(p) ==
    IF p.status = "PLAYING" THEN p
    ELSE IF p.status = "PAUSED" THEN [p EXCEPT !.status = "PLAYING"]
    ELSE IF current_track(p.tracks, p.position) = NoTrack
    THEN [p EXCEPT !.status = "STOPPED"]
    ELSE [p EXCEPT !.status = "PLAYING"]

\* An operation on guild g's player touches nothing of the guild followed above.
GuildFrame(g) ==
    /\ actor' = g
    /\ UNCHANGED <<kind, playerVars, voiceVars, taskVars, timerVars, histVars, quizVars,
                   resumeVars>>

\* queue.add(track) on guild g's player.
GuildAdd(g) ==
    /\ gAdded < MaxGuildAdds
    /\ gAdded' = gAdded + 1
    /\ LET p == heap[get_player(g)] IN
         WithPlayer(g, [p EXCEPT !.tracks = add(p.tracks, gAdded + 1)])
    /\ shuffled' = "no"
    /\ GuildFrame(g)

\* player.play(voice_channel) on guild g's player.
GuildPlay(g) ==
    /\ WithPlayer(g, played(heap[get_player(g)]))
    /\ shuffled' = "no"
    /\ GuildFrame(g)
    /\ UNCHANGED gAdded

\* The playback of guild g's player ends: next_track, and the play() it creates.
GuildTrackEnd(g) ==
    /\ players[player_key(g)] # 0
    /\ heap[players[player_key(g)]].status = "PLAYING"
    /\ LET p == heap[players[player_key(g)]]
           q == [p EXCEPT !.status = "STOPPED",
                          !.position = increment_position(p.repeat_mode, p.tracks, p.position)]
       IN  /\ heap' = [heap EXCEPT ![players[player_key(g)]] =
                          IF current_track(q.tracks, q.position) # NoTrack THEN played(q) ELSE q]
    /\ shuffled' = "no"
    /\ GuildFrame(g)
    /\ UNCHANGED <<players, got, gAdded>>

\* /stop in guild g: queue.clear(), disconnect, status = STOPPED.
GuildStop(g) ==
    /\ kind = "music"
    /\ LET p == heap[get_player(g)] IN
         WithPlayer(g, [p EXCEPT !.tracks = <<>>, !.position = 0, !.status = "STOPPED"])
    /\ shuffled' = "no"
    /\ GuildFrame(g)
    /\ UNCHANGED gAdded

\* /repeat mode in guild g.
GuildRepeat(g) ==
    /\ kind = "music"
    /\ \E m \in Modes :
         LET p == heap[get_player(g)] IN WithPlayer(g, [p EXCEPT !.repeat_mode = m])
    /\ shuffled' = "no"
    /\ GuildFrame(g)
    /\ UNCHANGED gAdded

\* /shuffle in guild g.
GuildShuffle(g) ==
    /\ kind = "music"
    /\ LET p == heap[get_player(g)] IN
         \E t \in shuffle(p.tracks, p.position) :
            /\ WithPlayer(g, [p EXCEPT !.tracks = t])
            /\ shuffled' = IF t # p.tracks THEN "new" ELSE "same"
    /\ GuildFrame(g)
    /\ UNCHANGED gAdded

\* /volume v in guild g: player.set_volume(v / 100).
GuildVolume(g) ==
    /\ kind = "music"
    /\ \E v \in {-10, 150} :
         LET p == heap[get_player(g)] IN WithPlayer(g, [p EXCEPT !.volume = set_volume(v)])
    /\ shuffled' = "no"
    /\ GuildFrame(g)
    /\ UNCHANGED gAdded

\* ---------------------------------------------------------- specifications
Next ==
    \/ AudioPlay
    \/ MusicPlayAdd
    \/ PlayBegin
    \/ MoveDone
    \/ DialDone
    \/ TrackEnd
    \/ AfterCallback
    \/ StopBegin
    \/ StopFinish
    \/ SetRepeat
    \/ Pause
    \/ Resume
    \/ Skip
    \/ EnvDisconnect

Spec == Init /\ [][Next]_vars

\* Repeat mode OFF, nobody stops or disconnects the player and nothing fails;
\* at most MaxAdds tracks are ever added.  Scheduled coroutines run, awaited
\* connections return and a playback reaches the end of its track.
QuietNext ==
    \/ QuietAudioPlay
    \/ MusicPlayAdd
    \/ QuietPlayBegin
    \/ QuietMoveDone
    \/ QuietDialDone
    \/ TrackEnd

LiveSpec ==
    /\ Init
    /\ [][QuietNext]_vars
    /\ WF_vars(QuietPlayBegin)
    /\ WF_vars(QuietMoveDone)
    /\ WF_vars(QuietDialDone)
    /\ WF_vars(TrackEnd)

\* A guild's player with the alone timer and what members and the voice
\* connection do around it.  The timer's sleep returns.
TimerNext ==
    \/ AudioPlay
    \/ MusicPlayAdd
    \/ PlayBegin
    \/ MoveDone
    \/ DialDone
    \/ TrackEnd
    \/ AfterCallback
    \/ MemberVoiceUpdate
    \/ TimerCheck
    \/ EnvDisconnect
    \/ EnvMove

TimerSpec ==
    /\ Init
    /\ [][TimerNext]_vars
    /\ WF_vars(TimerCheck)

QuizNext ==
    \/ QuizRequest
    \/ shopkeeper_quiz
    \/ QuizStart
    \/ QuizGameOver
    \/ QuizEnd

QuizSpec == Init /\ [][QuizNext]_vars

GuildNext ==
    \E g \in Guilds :
        \/ GuildAdd(g)
        \/ GuildPlay(g)
        \/ GuildTrackEnd(g)
        \/ GuildStop(g)
        \/ GuildRepeat(g)
        \/ GuildShuffle(g)
        \/ GuildVolume(g)

GuildSpec == Init /\ [][GuildNext]_vars

TypeOK ==
    /\ kind \in {"audio", "music"}
    /\ tracks \in Seq(1..MaxAdds)
    /\ position \in Nat
    /\ repeat_mode \in Modes
    /\ status \in Statuses
    /\ streaming \in 0..MaxAdds
    /\ afterPending \in 0..MaxAfter
    /\ InFlight <= MaxCalls
    /\ timerI \in 0..(NumChecks - 1)
    /\ cut \in BOOLEAN /\ autoOff \in BOOLEAN
    /\ given \in 0..MaxAdds
    /\ gAdded \in 0..MaxGuildAdds
    /\ actor \in Guilds \cup {""}
    /\ shuffled \in {"no", "same", "new"}
    /\ \A g \in Guilds : players[g] \in Objects \cup {0}

C2_SingleConsumer == ~overlap

CurrentTrackEnds ==
    TrackEnd /\ streaming = current_track(tracks, position)

\* voice_client.play begins a playback.
PlaybackBegins ==
    streaming = NoTrack /\ streaming' # NoTrack

\* C4. Repeat ONE: when the current track finishes under repeat mode ONE the
\* position is left unchanged and a play() is scheduled; the playback that
\* begins next (no stop, clear, /repeat or after-callback of an interrupted
\* playback in between) is of the same track.
C4_RepeatOne ==
    /\ [][(repeat_mode = "ONE" /\ CurrentTrackEnds) =>
            /\ position' = position
            /\ playQ' = playQ + 1
            /\ expectNext' = streaming]_vars
    /\ [][(repeat_mode = "ONE" /\ expectNext # NoTrack /\ PlaybackBegins) =>
            streaming' = expectNext]_vars

\* C4 happens: under repeat ONE the second track of the queue has finished, the
\* position still points at it and the play() that starts it again is due.
C4_Witness ==
    /\ repeat_mode = "ONE"
    /\ position = 1
    /\ expectNext # NoTrack
    /\ expectNext = current_track(tracks, position)
    /\ streaming = NoTrack
    /\ playQ > 0

\* C5. Repeat ALL: when the current track finishes under repeat mode ALL, the
\* position wraps to 0 if it was the last track and advances by one otherwise,
\* a play() is scheduled each time, and the playback that begins next (no stop,
\* clear, /repeat or after-callback of an interrupted playback in between) is
\* of the track at the new position: the first track after the last one.
C5_RepeatAll ==
    /\ [][(repeat_mode = "ALL" /\ CurrentTrackEnds) =>
            /\ position' = IF position = Len(tracks) - 1 THEN 0 ELSE position + 1
            /\ playQ' = playQ + 1
            /\ expectNext' = tracks[position' + 1]]_vars
    /\ [][(repeat_mode = "ALL" /\ expectNext # NoTrack /\ PlaybackBegins) =>
            streaming' = expectNext]_vars

\* C5 happens: under repeat ALL the last track of a queue of several has
\* finished, the position is back at 0 and the play() of the first track is due.
C5_Witness ==
    /\ repeat_mode = "ALL"
    /\ Len(tracks) >= 2
    /\ position = 0
    /\ expectNext # NoTrack
    /\ expectNext = tracks[1]
    /\ streaming = NoTrack
    /\ playQ > 0

\* C8. /pause then /resume is a round trip: /pause takes a PLAYING player to
\* PAUSED and leaves the queue's tracks and position alone; /resume takes a
\* PAUSED player back to PLAYING on the same track.
C8_PauseResume ==
    [][/\ (Pause /\ status = "PLAYING") =>
            (status' = "PAUSED" /\ tracks' = tracks /\ position' = position)
       /\ (Resume /\ status = "PAUSED") =>
            (status' = "PLAYING" /\ tracks' = tracks /\ position' = position)]_vars

\* C9. /skip skips the currently playing track: with a current track the
\* position moves past it and the command answers "Skipped n track(s).";
\* without one it answers "There are no more tracks to skip." and leaves the
\* queue's tracks and position alone.
C9_Skip ==
    [][Skip =>
         IF current_track(tracks, position) # NoTrack
         THEN position' > position /\ reply' = "Skipped"
         ELSE /\ reply' = "There are no more tracks to skip."
              /\ tracks' = tracks
              /\ position' = position]_vars

\* Quiz objects of the guild that were started and have not ended.
RunningQuizzes == {q \in 1..MaxQuizzes : quizState[q] \in {"running", "ending"}}

\* C10. At most one quiz per guild: never two Quiz objects started and not yet
\* ended, under any interleaving of /quiz commands and NEW reactions.
C10_OneQuiz == Cardinality(RunningQuizzes) <= 1

\* The player is at rest at the end of its queue.
Done ==
    /\ status = "STOPPED"
    /\ position = Len(tracks)
    /\ streaming = NoTrack
    /\ InFlight = 0

\* C6. Repeat OFF terminates: with repeat mode OFF, finitely many adds and no
\* playback or connection error, the player comes to rest for good: status
\* STOPPED, position = len(tracks), nothing playing and no play() due.
C6_Terminates == <>[]Done

\* C6 happens: every track of a full queue was played once and the player rests.
C6_Witness ==
    /\ Done
    /\ Len(tracks) = MaxAdds
    /\ started = tracks

\* The queue of the guild's Audio-cog player.
AudioCogTracks == IF kind = "audio" THEN tracks ELSE <<>>

\* C7. Auto-disconnect when alone: a timer that started ends; it ends without
\* disconnecting only if after its start someone joined or the bot was moved or
\* disconnected; otherwise it ends with the bot disconnected from voice and the
\* queue of the guild's Audio-cog player empty.  It disconnects only at its
\* last check (60 s in steps of 10 s) and only while the bot is still connected
\* and alone in the channel the timer started in.
C7_AutoDisconnect ==
    /\ (timerPc = "sleeping") ~>
           \/ timerPc = "aborted" /\ disturbed
           \/ timerPc = "disconnected" /\ ~connected /\ AudioCogTracks = <<>>
    /\ [][(timerPc = "sleeping" /\ timerPc' = "disconnected") =>
              /\ timerI = NumChecks - 1
              /\ ~humansHere /\ ~moved /\ connected]_vars

\* C7 happens: the timer ran out while a track was playing with more queued,
\* the bot has left and the queue is empty.
C7_Witness ==
    /\ timerPc = "disconnected"
    /\ ~connected
    /\ tracks = <<>>
    /\ nAdded >= 2
    /\ afterPending > 0
    /\ ~disturbed

\* Guild g's player as the cog's dict holds it: <<>> before the first
\* get_player(g), then <<the player object's fields>>.
PlayerState(g) ==
    IF players[player_key(g)] = 0 THEN <<>> ELSE <<heap[players[player_key(g)]]>>

\* C11. Per-guild isolation: every get_player / get_music_player call for a
\* guild returns the same player object, and an operation on one guild's player
\* (add, play, track end, stop, repeat, shuffle, set_volume) leaves the tracks,
\* position, repeat mode, volume and status of every other guild's player as
\* they were.
C11_Isolation ==
    /\ [][\A g \in Guilds : got[g] # 0 => got'[g] = got[g]]_vars
    /\ [][\A h \in Guilds \ {actor'} : PlayerState(h)' = PlayerState(h)]_vars

\* C11 happens: two guilds have their players, one playing with a queue and
\* settings of its own, the other stopped with an empty queue.
C11_Witness ==
    /\ got["a"] # 0 /\ got["b"] # 0
    /\ PlayerState("a") # <<>>
    /\ PlayerState("a")[1].status = "PLAYING"
    /\ Len(PlayerState("a")[1].tracks) >= 2
    /\ PlayerState("a")[1].position = 1
    /\ PlayerState("a")[1].repeat_mode = "ALL"
    /\ PlayerState("a")[1].volume = 100
    /\ PlayerState("b") = <<FreshPlayer>>

\* How often x occurs in the sequence s.
Count(s, x) == Cardinality({i \in DOMAIN s : s[i] = x})

\* C12. /shuffle only permutes the tracks after the current one: a shuffle of a
\* guild's queue leaves the position and the tracks at indices 0..position as
\* they were, and the queue holds the same tracks as often as before.
C12_ShuffleTail ==
    [][shuffled' # "no" =>
          LET before == heap[players'[player_key(actor')]]
              after == heap'[players'[player_key(actor')]]
          IN  /\ after.position = before.position
              /\ Len(after.tracks) = Len(before.tracks)
              /\ \A i \in 1..Len(before.tracks) :
                    i <= before.position + 1 => after.tracks[i] = before.tracks[i]
              /\ \A x \in 1..MaxGuildAdds :
                    Count(after.tracks, x) = Count(before.tracks, x)]_vars

\* C12 happens: a shuffle has put the tracks behind the playing one in a new
\* order.
C12_Witness ==
    /\ shuffled = "new"
    /\ PlayerState(actor)[1].status = "PLAYING"
    /\ PlayerState(actor)[1].position = 0
    /\ Len(PlayerState(actor)[1].tracks) = MaxGuildAdds
    /\ PlayerState(actor)[1].tracks[1] = 1

\* C13. The queue pointer stays in range: in every reachable state of a player,
\* after any add, play, track-end callback, clear, stop and repeat-mode change,
\* 0 <= queue.position <= len(queue.tracks).
C13_PositionInRange == 0 <= position /\ position <= Len(tracks)

\* C14. Play after stop: after stop(), or the alone timer's clear + disconnect,
\* has interrupted a playing track and the after-callback of that playback has
\* run, the first track then added becomes queue.current_track, and the first
\* playback to begin after that is of this track.
C14_PlayAfterStop ==
    /\ [][(cut /\ afterPending = 0 /\ nAdded' = nAdded + 1) =>
             current_track(tracks', position') = nAdded']_vars
    /\ [][(cut /\ afterPending = 0 /\ nAdded' = nAdded + 1 /\ Begins) =>
             streaming' = nAdded']_vars
    /\ [][(given # NoTrack /\ Begins) => streaming' = given]_vars

\* C15. PLAYING means something is playing: whenever the status is PLAYING, a
\* playback the player started has not had its after-callback yet (it runs on
\* the voice client, or a disconnect has just ended it), whatever the outcome of
\* audio_source() and of voice_client.play.
C15_PlayingMeansPlaying == status = "PLAYING" => Busy

\* C16. No self-restart after auto-disconnect: once the alone timer has
\* disconnected the bot (no play() call of an earlier request being
\* outstanding), the guild's player, the Audio cog's or the Music cog's, neither
\* reconnects nor starts a track until a user makes a new play request.
C16_NoSelfRestart == autoOff => (~connected /\ dialing = 0 /\ streaming = NoTrack)

====
